---- MODULE Spec2Model ----
(***************************************************************************)
(* Model of gworkspace-helper: the gdocsHelper, gDriveHelper and           *)
(* gMeetHelper helper functions, the auth package and the main driver.     *)
(* Strings are sequences of characters; a character has a UTF-8 width      *)
(* (what Go's len and strings.Index count) and a UTF-16 width (what the    *)
(* Docs service counts in StartIndex/EndIndex).                            *)
(***************************************************************************)
EXTENDS Integers, Sequences, FiniteSets, TLC

VARIABLES
    doc,        \* the document held by the Docs service (its shape)
    tokenFile,  \* the local token file: "absent", "valid" or "corrupt"
    pc,         \* the calling process: "idle", "returned", "exited", "done"
    inv,        \* the helper invocation that just ran: op, args, run
    config,     \* the auth.Config the caller passes
    faults,     \* the steps that can fail in this environment
    mainStep,   \* main: the statement it is at
    mainEndIndex, \* main: its local endIndex
    trace,      \* main: the helpers it has called, in order
    requestIds  \* the Calendar service: the conference RequestIds it has received

vars == <<doc, tokenFile, pc, inv, config, faults, mainStep, mainEndIndex, trace, requestIds>>

\* ---------------------------------------------------------------- bounds
\* calendar events a caller other than main creates
MaxInserts == 2

\* structural elements of a body after its leading section break
MaxElements == 2
\* paragraph elements of one paragraph
MaxRuns == 2
\* structural elements before the last paragraph of a document with tables
MaxTables == 3

\* --------------------------------------------------------------- strings
\* "e'" stands for a two-byte character (U+00E9), "\n" for the newline.
Chars == {"a", "b", "x", " ", "\n", "e'"}

\* Go: len(s) counts bytes of the UTF-8 encoding
Utf8Width(c) == IF c = "e'" THEN 2 ELSE 1

\* Docs: indexes count UTF-16 code units
Utf16Width(c) == 1

RECURSIVE ByteLen(_)
ByteLen(s) == IF s = <<>> THEN 0 ELSE Utf8Width(Head(s)) + ByteLen(Tail(s))

RECURSIVE UnitLen(_)
UnitLen(s) == IF s = <<>> THEN 0 ELSE Utf16Width(Head(s)) + UnitLen(Tail(s))

IsSpace(c) == c \in {" ", "\n"}

RECURSIVE TrimLeft(_)
TrimLeft(s) == IF s # <<>> /\ IsSpace(Head(s)) THEN TrimLeft(Tail(s)) ELSE s

RECURSIVE TrimRight(_)
TrimRight(s) ==
    IF s # <<>> /\ IsSpace(s[Len(s)]) THEN TrimRight(SubSeq(s, 1, Len(s) - 1)) ELSE s

\* strings.TrimSpace
TrimSpace(s) == TrimRight(TrimLeft(s))

HasPrefix(s, p) == Len(p) <= Len(s) /\ SubSeq(s, 1, Len(p)) = p

\* strings.Index: byte offset of the first occurrence of substr in s, or -1
RECURSIVE StringsIndexFrom(_, _, _)
StringsIndexFrom(s, substr, off) ==
    IF HasPrefix(s, substr) THEN off
    ELSE IF s = <<>> THEN -1
    ELSE StringsIndexFrom(Tail(s), substr, off + Utf8Width(Head(s)))

StringsIndex(s, substr) == StringsIndexFrom(s, substr, 0)

\* ------------------------------------------------------------- documents
\* The remote document is kept as its shape; Body lays it out the way the
\* Docs service returns it from Documents.Get (doc.Body.Content).
\* Text runs inside a paragraph: runs that end the paragraph carry the
\* newline, earlier runs do not.
MidRuns == {<<"a">>, <<"e'", "a">>}
LastRuns == {<<"a", "\n">>, <<"b", "\n">>}

\* a paragraph element: a text run, or an element without TextRun (inline object)
TextElem(c) == [isText |-> TRUE, content |-> c]
ObjectElem == [isText |-> FALSE, content |-> <<>>]

ParagraphShapes ==
    { [kind |-> "paragraph", elems |-> Append(pre, TextElem(l)), rows |-> 0, cols |-> 0] :
        pre \in UNION { [1..n -> {TextElem(c) : c \in MidRuns} \cup {ObjectElem}] : n \in 0..(MaxRuns - 1) },
        l \in LastRuns }

TableShapes == { [kind |-> "table", elems |-> <<>>, rows |-> n, cols |-> n] : n \in {1, 2} }

SectionBreak == [kind |-> "sectionBreak", elems |-> <<>>, rows |-> 0, cols |-> 0]

\* a new document: section break and one empty paragraph
NewDoc == <<SectionBreak, [kind |-> "paragraph", elems |-> <<TextElem(<<"\n">>)>>, rows |-> 0, cols |-> 0]>>

ElemLen(e) == IF e.isText THEN UnitLen(e.content) ELSE 1

\* paragraph elements with StartIndex/EndIndex, laid out from index start
RECURSIVE LayoutElems(_, _)
LayoutElems(elems, start) ==
    IF elems = <<>> THEN <<>>
    ELSE LET e == Head(elems)
             end == start + ElemLen(e)
         IN <<[StartIndex |-> start, EndIndex |-> end,
               hasTextRun |-> e.isText, Content |-> e.content]>>
            \o LayoutElems(Tail(elems), end)

\* a table occupies one index for its start, one per row, two per (empty) cell and one for its end
TableLen(t) == 2 + t.rows * (1 + 2 * t.cols)

\* StartIndex of the cell (row, col), both zero-based, of a table starting at start
CellStartIndex(t, start, row, col) == start + 1 + row * (1 + 2 * t.cols) + 1 + 2 * col

RECURSIVE ElemsLen(_)
ElemsLen(es) == IF es = <<>> THEN 0 ELSE ElemLen(Head(es)) + ElemsLen(Tail(es))

ShapeLen(sh) ==
    IF sh.kind = "sectionBreak" THEN 1
    ELSE IF sh.kind = "table" THEN TableLen(sh)
    ELSE ElemsLen(sh.elems)

\* doc.Body.Content: the structural elements with their indexes
RECURSIVE LayoutBody(_, _)
LayoutBody(shapes, start) ==
    IF shapes = <<>> THEN <<>>
    ELSE LET sh == Head(shapes)
             end == start + ShapeLen(sh)
         IN <<[StartIndex |-> start, EndIndex |-> end,
               isParagraph |-> sh.kind = "paragraph",
               isTable |-> sh.kind = "table",
               Elements |-> LayoutElems(sh.elems, start),
               rows |-> sh.rows, cols |-> sh.cols]>>
            \o LayoutBody(Tail(shapes), end)

Body(d) == LayoutBody(d, 0)

\* documents the service holds: a section break, then paragraphs and tables, a paragraph last
WellFormed(d) ==
    /\ Len(d) >= 2
    /\ Len(d) <= MaxElements + 1
    /\ d[1] = SectionBreak
    /\ d[Len(d)].kind = "paragraph"
\* ------------------------------------------------------- one invocation
\* The run of one helper invocation: the steps it performed in order
\* (calls), the remote API requests it issued (sent), the error it
\* returned ("nil", "error"; "fatal" when log.Fatalf ended the process,
\* "panic" for a run-time panic), the client configuration and token it
\* got from auth.GetClient, the token file as it leaves it, the value it
\* returns (ret, -1 when none), and the steps whose operation failed.
NoRun == [calls |-> <<>>, sent |-> <<>>, err |-> "nil", conf |-> "nil", token |-> "nil",
          tokenFile |-> "absent", ret |-> -1, failed |-> {}]

\* a step that returns its error to the caller: `if err != nil { return ... }`
Step(s, name, fail) ==
    IF s.err # "nil" THEN s
    ELSE [s EXCEPT !.calls = Append(@, name),
                   !.failed = IF fail = name THEN @ \cup {name} ELSE @,
                   !.err = IF fail = name THEN "error" ELSE "nil"]

\* a remote API request `....Do()`: issued, then its error returned
Send(s, api, body, fail) ==
    IF s.err # "nil" THEN s
    ELSE [s EXCEPT !.calls = Append(@, api),
                   !.sent = Append(@, [api |-> api, body |-> body]),
                   !.failed = IF fail = api THEN @ \cup {api} ELSE @,
                   !.err = IF fail = api THEN "error" ELSE "nil"]

\* `return fmt.Errorf(...)` on a local condition
ReturnError(s) == IF s.err # "nil" THEN s ELSE [s EXCEPT !.err = "error"]

\* ------------------------------------------------------------------ auth
\* getServiceAccountClient
getServiceAccountClient(s, fail) ==
    LET s1 == Step(s, "ioutil.ReadFile", fail)
        s2 == Step(s1, "google.CredentialsFromJSON", fail)
        s3 == Send(s2, "TokenSource.Token", <<>>, fail)
    IN IF s3.err # "nil" THEN s3
       ELSE [s3 EXCEPT !.conf = "nil", !.token = "token"]

\* tokenFromFile: an error when the file cannot be opened (absent) or decoded (corrupt)
tokenFromFile(s) ==
    [s EXCEPT !.calls = Append(@, "tokenFromFile"),
              !.err = IF s.tokenFile # "valid" THEN "error" ELSE "nil"]

\* getTokenFromWeb
getTokenFromWeb(s, fail) ==
    LET s1 == Step(s, "fmt.Scan", fail)
    IN Send(s1, "Config.Exchange", <<>>, fail)

\* saveToken: log.Fatalf when the file cannot be opened, the Encode error is dropped
saveToken(s, fail) ==
    IF fail = "os.OpenFile"
    THEN [s EXCEPT !.calls = Append(@, "os.OpenFile"), !.failed = @ \cup {"os.OpenFile"},
                   !.err = "fatal"]
    ELSE [s EXCEPT !.calls = @ \o <<"os.OpenFile", "Encoder.Encode">>,
                   !.failed = IF fail = "Encoder.Encode" THEN @ \cup {"Encoder.Encode"} ELSE @,
                   !.tokenFile = IF fail = "Encoder.Encode" THEN "corrupt" ELSE "valid"]

\* variant of getOAuthClient that asks the web for a token on every call
getOAuthClientAlwaysWeb(s, fail) ==
    LET s1 == Step(s, "ioutil.ReadFile", fail)
        s2 == Step(s1, "google.ConfigFromJSON", fail)
        s4 == getTokenFromWeb(s2, fail)
        s5 == saveToken(s4, fail)
    IN IF s4.err # "nil" THEN s4
       ELSE IF s5.err # "nil" THEN s5
       ELSE [s5 EXCEPT !.conf = "config", !.token = "token"]

\* getOAuthClient
getOAuthClient(s, fail) ==
    LET s1 == Step(s, "ioutil.ReadFile", fail)
        s2 == Step(s1, "google.ConfigFromJSON", fail)
        s3 == tokenFromFile(s2)
        s4 == getTokenFromWeb([s3 EXCEPT !.err = "nil"], fail)
        s5 == saveToken(s4, fail)
    IN IF s2.err # "nil" THEN s2
       ELSE IF s3.err = "nil" THEN [s3 EXCEPT !.conf = "config", !.token = "token"]
       ELSE IF s4.err # "nil" THEN s4
       ELSE IF s5.err # "nil" THEN s5
       ELSE [s5 EXCEPT !.conf = "config", !.token = "token"]

\* auth.GetClient
GetClient(cfg, tf, fail) ==
    LET s == [NoRun EXCEPT !.calls = <<"auth.GetClient">>, !.tokenFile = tf]
    IN IF cfg.UseServiceAccount THEN getServiceAccountClient(s, fail)
       ELSE getOAuthClient(s, fail)

\* the common head of every helper: GetClient, conf.Client(ctx, token), <api>.NewService
Service(cfg, tf, newService, fail) ==
    LET s0 == GetClient(cfg, tf, fail)
        s1 == Step(s0, "conf.Client", "none")
    IN Step(s1, newService, fail)

\* ----------------------------------------------------------- gdocsHelper
InsertTextRequest(text, index) == [kind |-> "InsertText", Text |-> text, Index |-> index]

UpdateTextStyleRequest(startIndex, endIndex) ==
    [kind |-> "UpdateTextStyle", Fields |-> "link", StartIndex |-> startIndex, EndIndex |-> endIndex]

InsertTableRequest(rows, columns, index) ==
    [kind |-> "InsertTable", Rows |-> rows, Columns |-> columns, Index |-> index]

\* CreateGoogleDoc
CreateGoogleDoc(cfg, tf, fail) ==
    LET s == Service(cfg, tf, "docs.NewService", fail)
    IN Send(s, "Documents.Create", <<>>, fail)

\* doc.Body.Content[len(doc.Body.Content)-1].EndIndex
LastEndIndex(body) == body[Len(body)].EndIndex

\* variant of AddText inserting at the EndIndex itself
AddTextAtEndIndex(cfg, tf, d, text, fail) ==
    LET s == Service(cfg, tf, "docs.NewService", fail)
        g == Send(s, "Documents.Get", <<>>, fail)
        endIndex == LastEndIndex(Body(d))
    IN Send(g, "Documents.BatchUpdate", <<InsertTextRequest(text, endIndex)>>, fail)

\* AddText
AddText(cfg, tf, d, text, fail) ==
    LET s == Service(cfg, tf, "docs.NewService", fail)
        g == Send(s, "Documents.Get", <<>>, fail)
        endIndex == LastEndIndex(Body(d)) - 1
    IN Send(g, "Documents.BatchUpdate", <<InsertTextRequest(text, endIndex)>>, fail)

\* ReplaceText
ReplaceText(cfg, tf, fail) ==
    LET s == Service(cfg, tf, "docs.NewService", fail)
    IN Send(s, "Documents.BatchUpdate", <<[kind |-> "ReplaceAllText"]>>, fail)

\* MakeCopyOfGoogleDoc
MakeCopyOfGoogleDoc(cfg, tf, fail) ==
    LET s == Service(cfg, tf, "drive.NewService", fail)
    IN Send(s, "Files.Copy", <<>>, fail)

\* ExportGoogleDocAsText
ExportGoogleDocAsText(cfg, tf, fail) ==
    LET s == Service(cfg, tf, "drive.NewService", fail)
        e == Send(s, "Files.Export", <<>>, fail)
    IN Step(e, "io.ReadAll", fail)

\* RenameGoogleDoc
RenameGoogleDoc(cfg, tf, fail) ==
    LET s == Service(cfg, tf, "drive.NewService", fail)
    IN Send(s, "Files.Update", <<>>, fail)

\* variant of the inner loop without the `== -1` guards: the last match wins
RECURSIVE BetweenLinesElementsLastMatch(_, _, _, _)
BetweenLinesElementsLastMatch(elems, startLine, endLine, acc) ==
    IF elems = <<>> THEN acc
    ELSE LET element == Head(elems)
             content == TrimSpace(element.Content)
             next ==
                 IF element.hasTextRun /\ element.Content # <<>>
                 THEN IF content = startLine
                      THEN [acc EXCEPT !.startIndex = element.StartIndex]
                      ELSE IF content = endLine
                      THEN [acc EXCEPT !.endIndex = element.StartIndex]
                      ELSE acc
                 ELSE acc
         IN BetweenLinesElementsLastMatch(Tail(elems), startLine, endLine, next)

\* AddTextBetweenLines, inner loop: the elements of one paragraph
RECURSIVE BetweenLinesElements(_, _, _, _)
BetweenLinesElements(elems, startLine, endLine, acc) ==
    IF elems = <<>> THEN acc
    ELSE LET element == Head(elems)
             content == TrimSpace(element.Content)
             next ==
                 IF element.hasTextRun /\ element.Content # <<>>
                 THEN IF content = startLine /\ acc.startIndex = -1
                      THEN [acc EXCEPT !.startIndex = element.StartIndex]
                      ELSE IF content = endLine /\ acc.endIndex = -1
                      THEN [acc EXCEPT !.endIndex = element.StartIndex]
                      ELSE acc
                 ELSE acc
         IN BetweenLinesElements(Tail(elems), startLine, endLine, next)

\* AddTextBetweenLines, outer loop: the structural elements of the body
RECURSIVE BetweenLinesBody(_, _, _, _)
BetweenLinesBody(body, startLine, endLine, acc) ==
    IF body = <<>> THEN acc
    ELSE LET element == Head(body)
             next == IF element.isParagraph
                     THEN BetweenLinesElements(element.Elements, startLine, endLine, acc)
                     ELSE acc
         IN BetweenLinesBody(Tail(body), startLine, endLine, next)

\* variant of AddTextBetweenLines without the check of the order of the lines
AddTextBetweenLinesUnordered(cfg, tf, d, startLine, endLine, textToAdd, fail) ==
    LET s == Service(cfg, tf, "docs.NewService", fail)
        g == Send(s, "Documents.Get", <<>>, fail)
        found == BetweenLinesBody(Body(d), startLine, endLine, [startIndex |-> -1, endIndex |-> -1])
        insertIndex == found.startIndex + ByteLen(startLine) + 1
    IN IF g.err # "nil" THEN g
       ELSE IF found.startIndex = -1 THEN ReturnError(g)
       ELSE IF found.endIndex = -1 THEN ReturnError(g)
       ELSE Send(g, "Documents.BatchUpdate",
                 <<InsertTextRequest(textToAdd \o <<"\n">>, insertIndex)>>, fail)

\* AddTextBetweenLines
AddTextBetweenLines(cfg, tf, d, startLine, endLine, textToAdd, fail) ==
    LET s == Service(cfg, tf, "docs.NewService", fail)
        g == Send(s, "Documents.Get", <<>>, fail)
        found == BetweenLinesBody(Body(d), startLine, endLine, [startIndex |-> -1, endIndex |-> -1])
        insertIndex == found.startIndex + ByteLen(startLine) + 1
    IN IF g.err # "nil" THEN g
       ELSE IF found.startIndex = -1 THEN ReturnError(g)
       ELSE IF found.endIndex = -1 THEN ReturnError(g)
       ELSE IF found.startIndex >= found.endIndex THEN ReturnError(g)
       ELSE Send(g, "Documents.BatchUpdate",
                 <<InsertTextRequest(textToAdd \o <<"\n">>, insertIndex)>>, fail)

\* AddTextAfterLine, inner loop with its break
RECURSIVE AfterLineElements(_, _, _)
AfterLineElements(elems, lineContent, insertIndex) ==
    IF elems = <<>> THEN insertIndex
    ELSE LET elem == Head(elems)
         IN IF elem.hasTextRun /\ elem.Content # <<>> /\ TrimSpace(elem.Content) = lineContent
            THEN elem.EndIndex
            ELSE AfterLineElements(Tail(elems), lineContent, insertIndex)

\* AddTextAfterLine, outer loop
RECURSIVE AfterLineBody(_, _, _)
AfterLineBody(body, lineContent, insertIndex) ==
    IF body = <<>> THEN insertIndex
    ELSE LET element == Head(body)
             next == IF element.isParagraph
                     THEN AfterLineElements(element.Elements, lineContent, insertIndex)
                     ELSE insertIndex
         IN AfterLineBody(Tail(body), lineContent, next)

\* AddTextAfterLine
AddTextAfterLine(cfg, tf, d, lineContent, textToAdd, fail) ==
    LET s == Service(cfg, tf, "docs.NewService", fail)
        g == Send(s, "Documents.Get", <<>>, fail)
        insertIndex == AfterLineBody(Body(d), lineContent, -1)
    IN IF g.err # "nil" THEN g
       ELSE IF insertIndex = -1 THEN ReturnError(g)
       ELSE Send(g, "Documents.BatchUpdate",
                 <<InsertTextRequest(textToAdd \o <<"\n">>, insertIndex)>>, fail)

\* AddTextAfterPatternInLine, inner loop with its break
RECURSIVE AfterPatternElements(_, _, _)
AfterPatternElements(elems, pattern, insertIndex) ==
    IF elems = <<>> THEN insertIndex
    ELSE LET elem == Head(elems)
             idx == StringsIndex(elem.Content, pattern)
         IN IF elem.hasTextRun /\ elem.Content # <<>> /\ idx # -1
            THEN elem.StartIndex + (idx + ByteLen(pattern))
            ELSE AfterPatternElements(Tail(elems), pattern, insertIndex)

\* AddTextAfterPatternInLine, outer loop
RECURSIVE AfterPatternBody(_, _, _)
AfterPatternBody(body, pattern, insertIndex) ==
    IF body = <<>> THEN insertIndex
    ELSE LET element == Head(body)
             next == IF element.isParagraph
                     THEN AfterPatternElements(element.Elements, pattern, insertIndex)
                     ELSE insertIndex
         IN AfterPatternBody(Tail(body), pattern, next)

\* AddTextAfterPatternInLine
AddTextAfterPatternInLine(cfg, tf, d, pattern, textToAdd, fail) ==
    LET s == Service(cfg, tf, "docs.NewService", fail)
        g == Send(s, "Documents.Get", <<>>, fail)
        insertIndex == AfterPatternBody(Body(d), pattern, -1)
    IN IF g.err # "nil" THEN g
       ELSE IF insertIndex = -1 THEN ReturnError(g)
       ELSE Send(g, "Documents.BatchUpdate", <<InsertTextRequest(textToAdd, insertIndex)>>, fail)

\* AddTable
AddTable(cfg, tf, d, rows, columns, fail) ==
    LET s == Service(cfg, tf, "docs.NewService", fail)
        g == Send(s, "Documents.Get", <<>>, fail)
        endIndex == LastEndIndex(Body(d)) - 1
    IN Send(g, "Documents.BatchUpdate", <<InsertTableRequest(rows, columns, endIndex)>>, fail)

\* variant of the "Find the table" loop that counts every structural element
RECURSIVE FindTableAmongAll(_, _, _, _)
FindTableAmongAll(body, i, tableCount, tableIndex) ==
    IF i > Len(body) THEN 0
    ELSE IF body[i].isTable /\ tableCount = tableIndex THEN i
    ELSE FindTableAmongAll(body, i + 1, tableCount + 1, tableIndex)

\* the "Find the table" loop of AddTextToTableCell and SetColorToTableCell:
\* position in body of the selected table, 0 for tableContent == nil
RECURSIVE FindTable(_, _, _, _)
FindTable(body, i, tableCount, tableIndex) ==
    IF i > Len(body) THEN 0
    ELSE IF body[i].isTable
    THEN IF tableCount = tableIndex THEN i
         ELSE FindTable(body, i + 1, tableCount + 1, tableIndex)
    ELSE FindTable(body, i + 1, tableCount, tableIndex)

\* AddTextToTableCell
AddTextToTableCell(cfg, tf, d, tableIndex, rowIndex, columnIndex, text, fail) ==
    LET s == Service(cfg, tf, "docs.NewService", fail)
        g == Send(s, "Documents.Get", <<>>, fail)
        body == Body(d)
        t == FindTable(body, 1, 0, tableIndex)
        tableContent == body[t]
        insertIndex == CellStartIndex(tableContent, tableContent.StartIndex, rowIndex, columnIndex) + 1
    IN IF g.err # "nil" THEN g
       ELSE IF t = 0 THEN ReturnError(g)
       ELSE IF rowIndex \notin 0..(tableContent.rows - 1) \/ columnIndex \notin 0..(tableContent.cols - 1)
       THEN [g EXCEPT !.err = "panic"]
       ELSE Send(g, "Documents.BatchUpdate", <<InsertTextRequest(text, insertIndex)>>, fail)

\* AddLinkToText, inner loop with its break
RECURSIVE LinkElements(_, _, _)
LinkElements(elems, searchText, acc) ==
    IF elems = <<>> THEN acc
    ELSE LET elem == Head(elems)
             idx == StringsIndex(elem.Content, searchText)
             startIndex == elem.StartIndex + idx
         IN IF elem.hasTextRun /\ elem.Content # <<>> /\ idx # -1
            THEN [startIndex |-> startIndex, endIndex |-> startIndex + ByteLen(searchText)]
            ELSE LinkElements(Tail(elems), searchText, acc)

\* AddLinkToText, outer loop
RECURSIVE LinkBody(_, _, _)
LinkBody(body, searchText, acc) ==
    IF body = <<>> THEN acc
    ELSE LET element == Head(body)
             next == IF element.isParagraph
                     THEN LinkElements(element.Elements, searchText, acc)
                     ELSE acc
         IN LinkBody(Tail(body), searchText, next)

\* AddLinkToText
AddLinkToText(cfg, tf, d, searchText, fail) ==
    LET s == Service(cfg, tf, "docs.NewService", fail)
        g == Send(s, "Documents.Get", <<>>, fail)
        found == LinkBody(Body(d), searchText, [startIndex |-> -1, endIndex |-> -1])
    IN IF g.err # "nil" THEN g
       ELSE IF found.startIndex = -1 \/ found.endIndex = -1 THEN ReturnError(g)
       ELSE Send(g, "Documents.BatchUpdate",
                 <<UpdateTextStyleRequest(found.startIndex, found.endIndex)>>, fail)

\* ReplaceMultipleTexts
ReplaceMultipleTexts(cfg, tf, fail) ==
    LET s == Service(cfg, tf, "docs.NewService", fail)
    IN Send(s, "Documents.BatchUpdate", <<[kind |-> "ReplaceAllText"]>>, fail)

\* SetColorToTableCell
SetColorToTableCell(cfg, tf, d, tableIndex, rowIndex, columnIndex, fail) ==
    LET s == Service(cfg, tf, "docs.NewService", fail)
        g == Send(s, "Documents.Get", <<>>, fail)
        body == Body(d)
        t == FindTable(body, 1, 0, tableIndex)
    IN IF g.err # "nil" THEN g
       ELSE IF t = 0 THEN ReturnError(g)
       ELSE Send(g, "Documents.BatchUpdate",
                 <<[kind |-> "UpdateTableCellStyle", Index |-> body[t].StartIndex,
                    RowIndex |-> rowIndex, ColumnIndex |-> columnIndex]>>, fail)

\* AddFilePermission
AddFilePermission(cfg, tf, fail) ==
    LET s == Service(cfg, tf, "drive.NewService", fail)
    IN Send(s, "Permissions.Create", <<>>, fail)

\* InsertTextWithLinkAndRender
InsertTextWithLinkAndRender(cfg, tf, text, locationIndex, fail) ==
    LET s == Service(cfg, tf, "docs.NewService", fail)
        insertTextRequest == InsertTextRequest(text, locationIndex)
        textLength == ByteLen(text)
        updateTextStyleRequest == UpdateTextStyleRequest(locationIndex, locationIndex + textLength)
    IN Send(s, "Documents.BatchUpdate", <<insertTextRequest, updateTextStyleRequest>>, fail)

\* GetDocumentEndIndex
GetDocumentEndIndex(cfg, tf, d, fail) ==
    LET s == Service(cfg, tf, "docs.NewService", fail)
        g == Send(s, "Documents.Get", <<>>, fail)
    IN IF g.err # "nil" THEN g ELSE [g EXCEPT !.ret = LastEndIndex(Body(d))]

\* GetDocumentURL: formats a string, no client and no request
GetDocumentURL == [NoRun EXCEPT !.calls = <<"fmt.Sprintf">>]

\* ---------------------------------------------------------- gDriveHelper
\* CreateFolder
CreateFolder(cfg, tf, fail) ==
    LET s == Service(cfg, tf, "drive.NewService", fail)
    IN Send(s, "Files.Create", <<>>, fail)

\* AddFolderPermission
AddFolderPermission(cfg, tf, fail) ==
    LET s == Service(cfg, tf, "drive.NewService", fail)
    IN Send(s, "Permissions.Create", <<>>, fail)

\* CopyFileToFolder
CopyFileToFolder(cfg, tf, fail) ==
    LET s == Service(cfg, tf, "drive.NewService", fail)
    IN Send(s, "Files.Copy", <<>>, fail)

\* variant of the loop without its break: the Id of the last permission
\* with the email, "" when there is none
RECURSIVE FindPermissionIDLast(_, _)
FindPermissionIDLast(permissions, email) ==
    IF permissions = <<>> THEN ""
    ELSE IF FindPermissionIDLast(Tail(permissions), email) # ""
         THEN FindPermissionIDLast(Tail(permissions), email)
    ELSE IF Head(permissions).EmailAddress = email THEN Head(permissions).Id
    ELSE ""

\* RemoveFolderPermission, the loop with its break: the Id of the first
\* permission with the email, "" when there is none
RECURSIVE FindPermissionID(_, _)
FindPermissionID(permissions, email) ==
    IF permissions = <<>> THEN ""
    ELSE IF Head(permissions).EmailAddress = email THEN Head(permissions).Id
    ELSE FindPermissionID(Tail(permissions), email)

\* RemoveFolderPermission; permissions is what Permissions.List answers
RemoveFolderPermission(cfg, tf, permissions, email, fail) ==
    LET s == Service(cfg, tf, "drive.NewService", fail)
        l == Send(s, "Permissions.List", <<>>, fail)
        permissionID == FindPermissionID(permissions, email)
    IN IF l.err # "nil" THEN l
       ELSE IF permissionID = "" THEN ReturnError(l)
       ELSE Send(l, "Permissions.Delete", <<permissionID>>, fail)

\* variant of RenameFolder that looks the folder up before renaming it
RenameFolderWithLookup(cfg, tf, fail) ==
    LET s == Service(cfg, tf, "drive.NewService", fail)
        g == Send(s, "Files.Get", <<>>, fail)
    IN Send(g, "Files.Update", <<>>, fail)

\* RenameFolder
RenameFolder(cfg, tf, fail) ==
    LET s == Service(cfg, tf, "drive.NewService", fail)
    IN Send(s, "Files.Update", <<>>, fail)

\* DeleteFileOrFolder
DeleteFileOrFolder(cfg, tf, fail) ==
    LET s == Service(cfg, tf, "drive.NewService", fail)
    IN Send(s, "Files.Delete", <<>>, fail)

\* ----------------------------------------------------------- gMeetHelper
\* A time.Time is an instant, counted in ticks of half a second since the
\* epoch (time.Time resolves nanoseconds; half seconds are enough to tell
\* apart instants within one second), and the location it is shown in.
TicksPerSecond == 2
SecondsPerHour == 3600

\* locations, with their offset from UTC in hours
UTC == [name |-> "UTC", offset |-> 0]
Bogota == [name |-> "America/Bogota", offset |-> -5]
\* time.LoadLocation("Asia/Tokyo")
jst == [name |-> "Asia/Tokyo", offset |-> 9]

\* Time.In: the same instant, shown in location loc
In(t, loc) == [t EXCEPT !.loc = loc]

\* Time.Add
Add(t, d) == [t EXCEPT !.instant = @ + d]

\* Time.Format(time.RFC3339), "2006-01-02T15:04:05Z07:00": the clock reading
\* of the location in whole seconds, and the offset of the location
Format(t) ==
    [seconds |-> (t.instant \div TicksPerSecond) + t.loc.offset * SecondsPerHour,
     offset |-> t.loc.offset]

\* variant of CreateCalendarEvent that formats the times in the location they
\* came in
CreateCalendarEventUnconverted(cfg, tf, startTime, endTime, fail) ==
    LET s == Service(cfg, tf, "calendar.NewService", fail)
        l == Step(s, "time.LoadLocation", fail)
        event == [Start |-> [DateTime |-> Format(startTime), TimeZone |-> "Asia/Tokyo"],
                  End |-> [DateTime |-> Format(endTime), TimeZone |-> "Asia/Tokyo"],
                  RequestId |-> "unique-request-id"]
    IN Send(l, "Events.Insert", <<event>>, fail)

\* CreateCalendarEvent
CreateCalendarEvent(cfg, tf, startTime, endTime, fail) ==
    LET s == Service(cfg, tf, "calendar.NewService", fail)
        l == Step(s, "time.LoadLocation", fail)
        startTimeJST == In(startTime, jst)
        endTimeJST == In(endTime, jst)
        event == [Start |-> [DateTime |-> Format(startTimeJST), TimeZone |-> "Asia/Tokyo"],
                  End |-> [DateTime |-> Format(endTimeJST), TimeZone |-> "Asia/Tokyo"],
                  RequestId |-> "unique-request-id"]
    IN Send(l, "Events.Insert", <<event>>, fail)

\* &calendar.EventAttendee{Email: email}: the other fields have their zero value
EventAttendee(email) == [Email |-> email, ResponseStatus |-> ""]

\* the loop of AddAttendeesToEvent: one append for each email, in order
RECURSIVE AppendAttendees(_, _)
AppendAttendees(list, attendees) ==
    IF attendees = <<>> THEN list
    ELSE AppendAttendees(Append(list, EventAttendee(Head(attendees))), Tail(attendees))

\* variant of AddAttendeesToEvent that sets the attendees of the event to the
\* new ones; fetched is what Events.Get answers
AddAttendeesToEventReplacing(cfg, tf, fetched, attendees, fail) ==
    LET s == Service(cfg, tf, "calendar.NewService", fail)
        g == Send(s, "Events.Get", <<>>, fail)
        event == [fetched EXCEPT !.Attendees = AppendAttendees(<<>>, attendees)]
    IN Send(g, "Events.Update", <<event>>, fail)

\* AddAttendeesToEvent; fetched is what Events.Get answers
AddAttendeesToEvent(cfg, tf, fetched, attendees, fail) ==
    LET s == Service(cfg, tf, "calendar.NewService", fail)
        g == Send(s, "Events.Get", <<>>, fail)
        event == [fetched EXCEPT !.Attendees = AppendAttendees(@, attendees)]
    IN Send(g, "Events.Update", <<event>>, fail)

\* AttachFileToEvent; file is what Files.Get answers, fetched what Events.Get
\* answers (a nil slice of attachments is the empty sequence: the helper
\* replaces nil by an empty slice before it appends)
AttachFileToEvent(cfg, tf, fetched, fileID, file, fail) ==
    LET s == Service(cfg, tf, "drive.NewService", fail)
        f == Send(s, "Files.Get", <<>>, fail)
        c == Step(f, "calendar.NewService", fail)
        g == Send(c, "Events.Get", <<>>, fail)
        attachment == [FileId |-> fileID, FileUrl |-> file.WebViewLink,
                       Title |-> file.Name, MimeType |-> file.MimeType]
        event == [fetched EXCEPT !.Attachments = Append(@, attachment)]
    IN Send(g, "Events.Update", <<event>>, fail)

\* ---------------------------------------------------------------- inputs
OAuthCfg == [UseServiceAccount |-> FALSE]
ServiceAccountCfg == [UseServiceAccount |-> TRUE]
Cfgs == {OAuthCfg, ServiceAccountCfg}

Lines == {<<"a">>, <<"b">>}
Texts == {<<"x">>, <<"x", "e'">>}
LineTexts == {<<"x">>}
Locations == {1, 2}
TableIndexes == {-1, 0, 1}
CellIndexes == {1}
Emails == {"u", "v"}
AttendeeLists == {<<>>, <<"u">>, <<"u", "v">>, <<"u", "u">>}
FileIDs == {"f1", "f2"}
\* the metadata Files.Get answers
DriveFile == [WebViewLink |-> "link", Name |-> "name", MimeType |-> "mime"]
\* events the Calendar service holds
StoredAttachment == [FileId |-> "f1", FileUrl |-> "link", Title |-> "name", MimeType |-> "mime"]
FetchedEvents ==
    [Id : {"e1"}, Summary : {"Meeting"},
     Attendees : {<<>>, <<[Email |-> "v", ResponseStatus |-> "accepted"]>>,
                  <<[Email |-> "v", ResponseStatus |-> "accepted"],
                    [Email |-> "u", ResponseStatus |-> "needsAction"]>>},
     Attachments : {<<>>, <<StoredAttachment>>}]
Instants == {0, 1, 2}
Times == [instant : Instants, loc : {UTC, Bogota}]
PermissionLists ==
    {<<>>, <<[Id |-> "p1", EmailAddress |-> "u"]>>,
     <<[Id |-> "p1", EmailAddress |-> "v"], [Id |-> "p2", EmailAddress |-> "u"]>>,
     <<[Id |-> "p1", EmailAddress |-> "u"], [Id |-> "p2", EmailAddress |-> "u"]>>}

\* steps that can fail
FailPoints ==
    {"ioutil.ReadFile", "google.CredentialsFromJSON", "TokenSource.Token", "google.ConfigFromJSON",
     "fmt.Scan", "Config.Exchange", "os.OpenFile", "Encoder.Encode",
     "docs.NewService", "drive.NewService", "calendar.NewService", "time.LoadLocation", "io.ReadAll",
     "Documents.Create", "Documents.Get", "Documents.BatchUpdate",
     "Files.Create", "Files.Copy", "Files.Export", "Files.Update", "Files.Delete", "Files.Get",
     "Permissions.Create", "Permissions.List", "Permissions.Delete",
     "Events.Insert", "Events.Get", "Events.Update"}

\* requests to the Docs, Drive and Calendar services
ApiRequests ==
    {"Documents.Create", "Documents.Get", "Documents.BatchUpdate",
     "Files.Create", "Files.Copy", "Files.Export", "Files.Update", "Files.Delete", "Files.Get",
     "Permissions.Create", "Permissions.List", "Permissions.Delete",
     "Events.Insert", "Events.Get", "Events.Update"}

RichDoc ==
    <<SectionBreak,
      [kind |-> "paragraph", elems |-> <<TextElem(<<"a">>), TextElem(<<"b", "\n">>)>>, rows |-> 0, cols |-> 0],
      [kind |-> "table", elems |-> <<>>, rows |-> 3, cols |-> 3],
      [kind |-> "paragraph", elems |-> <<TextElem(<<"\n">>)>>, rows |-> 0, cols |-> 0]>>

SampleDocs == {NewDoc, RichDoc}

\* documents with tables: a section break, up to MaxTables tables and one-line
\* paragraphs in any order, and the last paragraph
LineParagraph == [kind |-> "paragraph", elems |-> <<TextElem(<<"a", "\n">>)>>, rows |-> 0, cols |-> 0]
TableDocs ==
    { <<SectionBreak>> \o mid \o <<NewDoc[2]>> :
        mid \in UNION { [1..n -> TableShapes \cup {LineParagraph}] : n \in 0..MaxTables } }

NoInv == [op |-> "none", args |-> <<>>, run |-> NoRun]

\* --------------------------------------------------------------- actions
\* the requests of the run to one API method, in order
SentTo(run, api) == SelectSeq(run.sent, LAMBDA r : r.api = api)

\* the conference RequestIds the run has sent to the Calendar service
RequestIdsOf(run) ==
    LET inserts == SentTo(run, "Events.Insert")
    IN [i \in 1..Len(inserts) |-> inserts[i].body[1].RequestId]

\* a caller invokes helper op: the whole helper runs, its run is kept in inv
\* until the caller has looked at it; log.Fatalf and a panic end the process
Invoke(op, args, run) ==
    /\ inv' = [op |-> op, args |-> args, run |-> run]
    /\ tokenFile' = run.tokenFile
    /\ pc' = IF run.err \in {"fatal", "panic"} THEN "exited" ELSE "returned"
    /\ requestIds' = requestIds \o RequestIdsOf(run)
    /\ UNCHANGED <<doc, config, faults>>

\* a caller other than main
Caller == pc = "idle" /\ mainStep = 0 /\ UNCHANGED <<mainStep, mainEndIndex, trace>>

CallCreateGoogleDoc ==
    /\ Caller
    /\ \E fail \in faults \cup {"none"} :
           Invoke("CreateGoogleDoc", <<>>, CreateGoogleDoc(config, tokenFile, fail))

CallAddText ==
    /\ Caller
    /\ \E fail \in faults \cup {"none"} :
           \E text \in LineTexts :
               Invoke("AddText", [text |-> text], AddText(config, tokenFile, doc, text, fail))

CallReplaceText ==
    /\ Caller
    /\ \E fail \in faults \cup {"none"} :
           Invoke("ReplaceText", <<>>, ReplaceText(config, tokenFile, fail))

CallMakeCopyOfGoogleDoc ==
    /\ Caller
    /\ \E fail \in faults \cup {"none"} :
           Invoke("MakeCopyOfGoogleDoc", <<>>, MakeCopyOfGoogleDoc(config, tokenFile, fail))

CallExportGoogleDocAsText ==
    /\ Caller
    /\ \E fail \in faults \cup {"none"} :
           Invoke("ExportGoogleDocAsText", <<>>, ExportGoogleDocAsText(config, tokenFile, fail))

CallRenameGoogleDoc ==
    /\ Caller
    /\ \E fail \in faults \cup {"none"} :
           Invoke("RenameGoogleDoc", <<>>, RenameGoogleDoc(config, tokenFile, fail))

CallAddTextBetweenLines ==
    /\ Caller
    /\ \E fail \in faults \cup {"none"} :
           \E startLine \in Lines, endLine \in Lines, textToAdd \in LineTexts :
               Invoke("AddTextBetweenLines",
                      [startLine |-> startLine, endLine |-> endLine, textToAdd |-> textToAdd],
                      AddTextBetweenLines(config, tokenFile, doc, startLine, endLine, textToAdd, fail))

CallAddTextAfterLine ==
    /\ Caller
    /\ \E fail \in faults \cup {"none"} :
           \E lineContent \in Lines, textToAdd \in LineTexts :
               Invoke("AddTextAfterLine", [lineContent |-> lineContent, textToAdd |-> textToAdd],
                      AddTextAfterLine(config, tokenFile, doc, lineContent, textToAdd, fail))

CallAddTextAfterPatternInLine ==
    /\ Caller
    /\ \E fail \in faults \cup {"none"} :
           \E pattern \in Lines, textToAdd \in LineTexts :
               Invoke("AddTextAfterPatternInLine", [pattern |-> pattern, textToAdd |-> textToAdd],
                      AddTextAfterPatternInLine(config, tokenFile, doc, pattern, textToAdd, fail))

CallAddTable ==
    /\ Caller
    /\ \E fail \in faults \cup {"none"} :
           \E n \in {3} :
               Invoke("AddTable", [rows |-> n, columns |-> n], AddTable(config, tokenFile, doc, n, n, fail))

CallAddTextToTableCell ==
    /\ Caller
    /\ \E fail \in faults \cup {"none"} :
           \E tableIndex \in TableIndexes, i \in CellIndexes, text \in LineTexts :
               Invoke("AddTextToTableCell",
                      [tableIndex |-> tableIndex, rowIndex |-> i, columnIndex |-> i, text |-> text],
                      AddTextToTableCell(config, tokenFile, doc, tableIndex, i, i, text, fail))

CallAddLinkToText ==
    /\ Caller
    /\ \E fail \in faults \cup {"none"} :
           \E searchText \in Lines :
               Invoke("AddLinkToText", [searchText |-> searchText],
                      AddLinkToText(config, tokenFile, doc, searchText, fail))

CallReplaceMultipleTexts ==
    /\ Caller
    /\ \E fail \in faults \cup {"none"} :
           Invoke("ReplaceMultipleTexts", <<>>, ReplaceMultipleTexts(config, tokenFile, fail))

CallSetColorToTableCell ==
    /\ Caller
    /\ \E fail \in faults \cup {"none"} :
           \E tableIndex \in TableIndexes, i \in CellIndexes :
               Invoke("SetColorToTableCell",
                      [tableIndex |-> tableIndex, rowIndex |-> i, columnIndex |-> i],
                      SetColorToTableCell(config, tokenFile, doc, tableIndex, i, i, fail))

CallAddFilePermission ==
    /\ Caller
    /\ \E fail \in faults \cup {"none"} :
           Invoke("AddFilePermission", <<>>, AddFilePermission(config, tokenFile, fail))

CallInsertTextWithLinkAndRender ==
    /\ Caller
    /\ \E fail \in faults \cup {"none"} :
           \E text \in Texts, locationIndex \in Locations :
               Invoke("InsertTextWithLinkAndRender", [text |-> text, locationIndex |-> locationIndex],
                      InsertTextWithLinkAndRender(config, tokenFile, text, locationIndex, fail))

CallGetDocumentEndIndex ==
    /\ Caller
    /\ \E fail \in faults \cup {"none"} :
           Invoke("GetDocumentEndIndex", <<>>, GetDocumentEndIndex(config, tokenFile, doc, fail))

CallGetDocumentURL ==
    /\ Caller
    /\ \E fail \in faults \cup {"none"} :
           Invoke("GetDocumentURL", <<>>, [GetDocumentURL EXCEPT !.tokenFile = tokenFile])

CallCreateFolder ==
    /\ Caller
    /\ \E fail \in faults \cup {"none"} :
           Invoke("CreateFolder", <<>>, CreateFolder(config, tokenFile, fail))

CallAddFolderPermission ==
    /\ Caller
    /\ \E fail \in faults \cup {"none"} :
           Invoke("AddFolderPermission", <<>>, AddFolderPermission(config, tokenFile, fail))

CallCopyFileToFolder ==
    /\ Caller
    /\ \E fail \in faults \cup {"none"} :
           Invoke("CopyFileToFolder", <<>>, CopyFileToFolder(config, tokenFile, fail))

CallRemoveFolderPermission ==
    /\ Caller
    /\ \E fail \in faults \cup {"none"} :
           \E permissions \in PermissionLists, email \in Emails :
               Invoke("RemoveFolderPermission", [permissions |-> permissions, email |-> email],
                      RemoveFolderPermission(config, tokenFile, permissions, email, fail))

CallRenameFolder ==
    /\ Caller
    /\ \E fail \in faults \cup {"none"} :
           Invoke("RenameFolder", <<>>, RenameFolder(config, tokenFile, fail))

CallDeleteFileOrFolder ==
    /\ Caller
    /\ \E fail \in faults \cup {"none"} :
           Invoke("DeleteFileOrFolder", <<>>, DeleteFileOrFolder(config, tokenFile, fail))

CallCreateCalendarEvent ==
    /\ Caller
    /\ Len(requestIds) < MaxInserts
    /\ \E fail \in faults \cup {"none"} :
           \E startTime \in Times, endTime \in Times :
               Invoke("CreateCalendarEvent", [startTime |-> startTime, endTime |-> endTime],
                      CreateCalendarEvent(config, tokenFile, startTime, endTime, fail))

CallAddAttendeesToEvent ==
    /\ Caller
    /\ \E fail \in faults \cup {"none"} :
           \E fetched \in FetchedEvents, attendees \in AttendeeLists :
               Invoke("AddAttendeesToEvent", [fetched |-> fetched, attendees |-> attendees],
                      AddAttendeesToEvent(config, tokenFile, fetched, attendees, fail))

CallAttachFileToEvent ==
    /\ Caller
    /\ \E fail \in faults \cup {"none"} :
           \E fetched \in FetchedEvents, fileID \in FileIDs :
               Invoke("AttachFileToEvent", [fetched |-> fetched, fileID |-> fileID, file |-> DriveFile],
                      AttachFileToEvent(config, tokenFile, fetched, fileID, DriveFile, fail))

\* the caller has taken the result of the invocation
Return ==
    /\ pc = "returned"
    /\ pc' = "idle"
    /\ inv' = NoInv
    /\ mainStep = 0
    /\ UNCHANGED <<doc, tokenFile, config, faults, mainStep, mainEndIndex, trace, requestIds>>

\* the service's document changes between invocations (updates applied, other editors):
\* a paragraph is appended, a table is inserted before the last paragraph, an element is deleted
RemoteEdit ==
    /\ pc = "idle"
    /\ \/ \E p \in ParagraphShapes : doc' = Append(doc, p)
       \/ \E t \in TableShapes :
              doc' = SubSeq(doc, 1, Len(doc) - 1) \o <<t, doc[Len(doc)]>>
       \/ \E i \in 2..Len(doc) : doc' = SubSeq(doc, 1, i - 1) \o SubSeq(doc, i + 1, Len(doc))
    /\ WellFormed(doc')
    /\ mainStep = 0
    /\ UNCHANGED <<tokenFile, pc, inv, config, faults, mainStep, mainEndIndex, trace, requestIds>>

\* ------------------------------------------------------------------ main
\* the last statement of main
MainLast == 18

\* the event main has created
MainEvent == [Id |-> "e1", Summary |-> "Meeting", Attendees |-> <<>>, Attachments |-> <<>>]

\* the helper call main makes at statement step, with main's arguments
MainCallAt(step, permissions, now, fail) ==
    CASE step = 1 -> [op |-> "CreateGoogleDoc", run |-> CreateGoogleDoc(config, tokenFile, fail)]
      [] step = 2 -> [op |-> "AddText", run |-> AddText(config, tokenFile, doc, <<"x">>, fail)]
      [] step = 3 -> [op |-> "CreateFolder", run |-> CreateFolder(config, tokenFile, fail)]
      [] step = 4 -> [op |-> "CopyFileToFolder", run |-> CopyFileToFolder(config, tokenFile, fail)]
      [] step = 5 -> [op |-> "CreateCalendarEvent",
                      run |-> CreateCalendarEvent(config, tokenFile, now,
                                                  Add(now, SecondsPerHour * TicksPerSecond), fail)]
      [] step = 6 -> [op |-> "AddAttendeesToEvent",
                      run |-> AddAttendeesToEvent(config, tokenFile, MainEvent, <<"u">>, fail)]
      [] step = 7 -> [op |-> "AttachFileToEvent",
                      run |-> AttachFileToEvent(config, tokenFile,
                                                [MainEvent EXCEPT !.Attendees = <<EventAttendee("u")>>],
                                                "f1", DriveFile, fail)]
      [] step = 8 -> [op |-> "MakeCopyOfGoogleDoc", run |-> MakeCopyOfGoogleDoc(config, tokenFile, fail)]
      [] step = 9 -> [op |-> "ExportGoogleDocAsText", run |-> ExportGoogleDocAsText(config, tokenFile, fail)]
      [] step = 10 -> [op |-> "AddTable", run |-> AddTable(config, tokenFile, doc, 3, 3, fail)]
      [] step = 11 -> [op |-> "AddTextToTableCell",
                       run |-> AddTextToTableCell(config, tokenFile, doc, 0, 1, 1, <<"x">>, fail)]
      [] step = 12 -> [op |-> "SetColorToTableCell",
                       run |-> SetColorToTableCell(config, tokenFile, doc, 0, 1, 1, fail)]
      [] step = 13 -> [op |-> "GetDocumentEndIndex", run |-> GetDocumentEndIndex(config, tokenFile, doc, fail)]
      [] step = 14 -> [op |-> "InsertTextWithLinkAndRender",
                       run |-> InsertTextWithLinkAndRender(config, tokenFile, <<"x">>, mainEndIndex - 1, fail)]
      [] step = 15 -> [op |-> "AddFolderPermission", run |-> AddFolderPermission(config, tokenFile, fail)]
      [] step = 16 -> [op |-> "RemoveFolderPermission",
                       run |-> RemoveFolderPermission(config, tokenFile, permissions, "u", fail)]
      [] step = 17 -> [op |-> "RenameFolder", run |-> RenameFolder(config, tokenFile, fail)]
      [] step = 18 -> [op |-> "DeleteFileOrFolder", run |-> DeleteFileOrFolder(config, tokenFile, fail)]

\* main calls the helper of its current statement
MainCall ==
    /\ pc = "idle"
    /\ mainStep \in 1..MainLast
    /\ \E fail \in faults \cup {"none"}, permissions \in PermissionLists, now \in Times :
           LET c == MainCallAt(mainStep, permissions, now, fail)
           IN /\ Invoke(c.op, <<>>, c.run)
              /\ trace' = Append(trace, [op |-> c.op, err |-> c.run.err])
    /\ UNCHANGED <<mainStep, mainEndIndex>>

\* variant of the error check that goes on after an error
MainCheckIgnoringError ==
    /\ pc = "returned"
    /\ mainStep \in 1..MainLast
    /\ pc' = IF mainStep = MainLast THEN "done" ELSE "idle"
    /\ mainStep' = mainStep + 1
    /\ mainEndIndex' = IF inv.op = "GetDocumentEndIndex" THEN inv.run.ret ELSE mainEndIndex
    /\ inv' = NoInv
    /\ UNCHANGED <<doc, tokenFile, config, faults, trace, requestIds>>

\* `if err != nil { log.Fatalf(...) }`, else on to the next statement
MainCheck ==
    /\ pc = "returned"
    /\ mainStep \in 1..MainLast
    /\ IF inv.run.err # "nil"
       THEN pc' = "exited" /\ UNCHANGED <<mainStep, mainEndIndex>>
       ELSE /\ pc' = IF mainStep = MainLast THEN "done" ELSE "idle"
            /\ mainStep' = mainStep + 1
            /\ mainEndIndex' = IF inv.op = "GetDocumentEndIndex" THEN inv.run.ret ELSE mainEndIndex
    /\ inv' = NoInv
    /\ UNCHANGED <<doc, tokenFile, config, faults, trace, requestIds>>

\* the documents of the service change while main runs
MainRemoteEdit ==
    /\ pc = "idle"
    /\ mainStep \in 1..MainLast
    /\ doc' \in SampleDocs \ {doc}
    /\ UNCHANGED <<tokenFile, pc, inv, config, faults, mainStep, mainEndIndex, trace, requestIds>>

\* ------------------------------------------------------- specifications
\* Spec: the document helpers on every document, all steps succeeding
Init ==
    /\ doc = NewDoc
    /\ tokenFile = "valid"
    /\ pc = "idle"
    /\ inv = NoInv
    /\ config = OAuthCfg
    /\ faults = {}
    /\ mainStep = 0
    /\ mainEndIndex = -1
    /\ trace = <<>>
    /\ requestIds = <<>>

Next ==
    \/ CallAddText
    \/ CallAddTextBetweenLines
    \/ CallAddTextAfterLine
    \/ CallAddTextAfterPatternInLine
    \/ CallAddTable
    \/ CallAddTextToTableCell
    \/ CallAddLinkToText
    \/ CallSetColorToTableCell
    \/ CallGetDocumentEndIndex
    \/ RemoteEdit
    \/ Return

Spec == Init /\ [][Next]_vars

\* SpecFail: every helper in both authentication modes, any one step failing
InitFail ==
    /\ doc \in SampleDocs
    /\ tokenFile \in {"absent", "valid"}
    /\ pc = "idle"
    /\ inv = NoInv
    /\ config \in Cfgs
    /\ faults = FailPoints
    /\ mainStep = 0
    /\ mainEndIndex = -1
    /\ trace = <<>>
    /\ requestIds = <<>>

NextFail ==
    \/ CallCreateGoogleDoc
    \/ CallAddText
    \/ CallReplaceText
    \/ CallMakeCopyOfGoogleDoc
    \/ CallExportGoogleDocAsText
    \/ CallRenameGoogleDoc
    \/ CallAddTextBetweenLines
    \/ CallAddTextAfterLine
    \/ CallAddTextAfterPatternInLine
    \/ CallAddTable
    \/ CallAddTextToTableCell
    \/ CallAddLinkToText
    \/ CallReplaceMultipleTexts
    \/ CallSetColorToTableCell
    \/ CallAddFilePermission
    \/ CallInsertTextWithLinkAndRender
    \/ CallGetDocumentEndIndex
    \/ CallGetDocumentURL
    \/ CallCreateFolder
    \/ CallAddFolderPermission
    \/ CallCopyFileToFolder
    \/ CallRemoveFolderPermission
    \/ CallRenameFolder
    \/ CallDeleteFileOrFolder
    \/ CallCreateCalendarEvent
    \/ CallAddAttendeesToEvent
    \/ CallAttachFileToEvent
    \/ Return

SpecFail == InitFail /\ [][NextFail]_vars
\* SpecMain: the driver, any one step of any of its calls failing
InitMain ==
    /\ doc = NewDoc
    /\ tokenFile \in {"absent", "valid"}
    /\ pc = "idle"
    /\ inv = NoInv
    /\ config = OAuthCfg
    /\ faults = FailPoints
    /\ mainStep = 1
    /\ mainEndIndex = -1
    /\ trace = <<>>
    /\ requestIds = <<>>

NextMain ==
    \/ MainCall
    \/ MainCheck
    \/ MainRemoteEdit

SpecMain == InitMain /\ [][NextMain]_vars
\* SpecTables: the table helpers on documents with several tables
InitTables ==
    /\ doc \in TableDocs
    /\ tokenFile = "valid"
    /\ pc = "idle"
    /\ inv = NoInv
    /\ config = OAuthCfg
    /\ faults = {"Documents.Get", "Documents.BatchUpdate"}
    /\ mainStep = 0
    /\ mainEndIndex = -1
    /\ trace = <<>>
    /\ requestIds = <<>>

NextTables ==
    \/ CallAddTextToTableCell
    \/ CallSetColorToTableCell
    \/ Return

SpecTables == InitTables /\ [][NextTables]_vars
\* ================================================================ claims
\* the invocation of op has returned without error
Returned(op) == pc = "returned" /\ inv.op = op /\ inv.run.err = "nil"

\* the requests of the batch update the invocation sent
BatchRequests == inv.run.sent[Len(inv.run.sent)].body

\* the paragraph elements of the whole body in document order
RECURSIVE Runs(_)
Runs(body) ==
    IF body = <<>> THEN <<>>
    ELSE (IF Head(body).isParagraph THEN Head(body).Elements ELSE <<>>) \o Runs(Tail(body))

Least(S) == IF S = {} THEN 0 ELSE CHOOSE i \in S : \A j \in S : i <= j

\* position in Runs of the first text run whose trimmed content is line, 0 when none
FirstLineRun(body, line) ==
    LET rs == Runs(body)
    IN Least({i \in 1..Len(rs) : rs[i].hasTextRun /\ TrimSpace(rs[i].Content) = line})

Contains(s, p) == \E i \in 1..(Len(s) - Len(p) + 1) : SubSeq(s, i, i + Len(p) - 1) = p

\* position in Runs of the first text run that contains pattern, 0 when none
FirstContainingRun(body, pattern) ==
    LET rs == Runs(body)
    IN Least({i \in 1..Len(rs) : rs[i].hasTextRun /\ Contains(rs[i].Content, pattern)})

\* StartIndex of the first text run whose trimmed content is line, -1 when none
FirstLineStart(body, line) ==
    LET i == FirstLineRun(body, line)
    IN IF i = 0 THEN -1 ELSE Runs(body)[i].StartIndex

\* C1: AddTextAfterLine, AddTextAfterPatternInLine and AddLinkToText compute
\* the offset of their update from the first matching text run of the whole
\* document, in document order.
C1_FirstMatchInDocument ==
    /\ Returned("AddTextAfterLine") =>
          BatchRequests[1].Index =
              Runs(Body(doc))[FirstLineRun(Body(doc), inv.args.lineContent)].EndIndex
    /\ Returned("AddTextAfterPatternInLine") =>
          LET r == Runs(Body(doc))[FirstContainingRun(Body(doc), inv.args.pattern)]
          IN BatchRequests[1].Index =
                 r.StartIndex + StringsIndex(r.Content, inv.args.pattern) + ByteLen(inv.args.pattern)
    /\ Returned("AddLinkToText") =>
          LET r == Runs(Body(doc))[FirstContainingRun(Body(doc), inv.args.searchText)]
          IN BatchRequests[1].StartIndex = r.StartIndex + StringsIndex(r.Content, inv.args.searchText)

\* C2: for distinct startLine and endLine, the start position AddTextBetweenLines
\* finds is the StartIndex of the first text run of the document whose trimmed
\* content is startLine, its end position the StartIndex of the first text run
\* whose trimmed content is endLine (-1 when there is none); the insertion it
\* sends is computed from that start position.
C2_BetweenLinesFirstMatch ==
    (pc = "returned" /\ inv.op = "AddTextBetweenLines" /\ inv.args.startLine # inv.args.endLine) =>
        LET body == Body(doc)
            found == BetweenLinesBody(body, inv.args.startLine, inv.args.endLine,
                                      [startIndex |-> -1, endIndex |-> -1])
            firstStart == FirstLineStart(body, inv.args.startLine)
        IN /\ found.startIndex = firstStart
           /\ found.endIndex = FirstLineStart(body, inv.args.endLine)
           /\ inv.run.err = "nil" =>
                  BatchRequests[1].Index = firstStart + ByteLen(inv.args.startLine) + 1

\* C2 witness: both lines occur twice and the call succeeded
C2_Witness ==
    /\ Returned("AddTextBetweenLines")
    /\ inv.args.startLine # inv.args.endLine
    /\ LET rs == Runs(Body(doc))
       IN \E i, j, k, l \in 1..Len(rs) :
              /\ i < j /\ k < l
              /\ TrimSpace(rs[i].Content) = inv.args.startLine
              /\ TrimSpace(rs[j].Content) = inv.args.startLine
              /\ TrimSpace(rs[k].Content) = inv.args.endLine
              /\ TrimSpace(rs[l].Content) = inv.args.endLine

\* C9: when AddTextBetweenLines succeeds, its insertion index lies after the
\* start of the start-line run and not after the start of the end-line run.
C9_InsertedBetween ==
    Returned("AddTextBetweenLines") =>
        /\ FirstLineStart(Body(doc), inv.args.startLine) < BatchRequests[1].Index
        /\ BatchRequests[1].Index <= FirstLineStart(Body(doc), inv.args.endLine)

\* the EndIndex of the last structural element: the length of the document
RECURSIVE DocLength(_)
DocLength(d) == IF d = <<>> THEN 0 ELSE ShapeLen(Head(d)) + DocLength(Tail(d))

\* C10: AddText inserts at the EndIndex of the last structural element minus
\* one, which is what GetDocumentEndIndex returns for the document minus one;
\* AddTable inserts its table at the same index.
C10_AppendAtEnd ==
    /\ Returned("AddText") =>
          /\ BatchRequests[1].kind = "InsertText"
          /\ BatchRequests[1].Index = DocLength(doc) - 1
          /\ BatchRequests[1].Index = GetDocumentEndIndex(config, tokenFile, doc, "none").ret - 1
          /\ BatchRequests[1].Index = AddTable(config, tokenFile, doc, 3, 3, "none").sent[2].body[1].Index
    /\ Returned("AddTable") =>
          /\ BatchRequests[1].kind = "InsertTable"
          /\ BatchRequests[1].Index = DocLength(doc) - 1
          /\ BatchRequests[1].Index = GetDocumentEndIndex(config, tokenFile, doc, "none").ret - 1
    /\ Returned("GetDocumentEndIndex") => inv.run.ret = DocLength(doc)

\* C10 witness: AddText succeeded on a document of several elements
C10_Witness == Returned("AddText") /\ Len(doc) > 2 /\ BatchRequests[1].Index > 1
\* the invocation of a helper has ended, with or without error
Ended == pc \in {"returned", "exited"} /\ inv.op # "none"

Range(f) == {f[i] : i \in DOMAIN f}

\* the requests to the Docs, Drive and Calendar services the run issued, in order
ApiNames(run) ==
    LET sel == SelectSeq(run.sent, LAMBDA r : r.api \in ApiRequests)
    IN [i \in 1..Len(sel) |-> sel[i].api]

\* C3 as stated: every helper issues exactly one remote API request per invocation.
C3_OneRequestPerInvocation ==
    (Ended /\ inv.run.err = "nil") => Len(ApiNames(inv.run)) = 1

\* the requests a successful invocation of each helper issues
RequestsOf(op) ==
    CASE op = "CreateGoogleDoc" -> <<"Documents.Create">>
      [] op \in {"ReplaceText", "ReplaceMultipleTexts", "InsertTextWithLinkAndRender"} ->
            <<"Documents.BatchUpdate">>
      [] op \in {"MakeCopyOfGoogleDoc", "CopyFileToFolder"} -> <<"Files.Copy">>
      [] op = "ExportGoogleDocAsText" -> <<"Files.Export">>
      [] op \in {"RenameGoogleDoc", "RenameFolder"} -> <<"Files.Update">>
      [] op \in {"AddFilePermission", "AddFolderPermission"} -> <<"Permissions.Create">>
      [] op = "CreateFolder" -> <<"Files.Create">>
      [] op = "DeleteFileOrFolder" -> <<"Files.Delete">>
      [] op = "CreateCalendarEvent" -> <<"Events.Insert">>
      [] op = "GetDocumentEndIndex" -> <<"Documents.Get">>
      [] op = "GetDocumentURL" -> <<>>
      [] op \in {"AddText", "AddTextBetweenLines", "AddTextAfterLine", "AddTextAfterPatternInLine",
                 "AddTable", "AddTextToTableCell", "AddLinkToText", "SetColorToTableCell"} ->
            <<"Documents.Get", "Documents.BatchUpdate">>
      [] op = "RemoveFolderPermission" -> <<"Permissions.List", "Permissions.Delete">>
      [] op = "AddAttendeesToEvent" -> <<"Events.Get", "Events.Update">>
      [] op = "AttachFileToEvent" -> <<"Files.Get", "Events.Get", "Events.Update">>

IsPrefix(p, q) == Len(p) <= Len(q) /\ SubSeq(q, 1, Len(p)) = p

\* C3 amended: a successful invocation issues the fixed sequence of requests of
\* its helper, each once (one, two or three requests; none for GetDocumentURL);
\* a failed invocation issues a prefix of it.
C3_RequestsPerHelper ==
    Ended =>
        IF inv.run.err = "nil"
        THEN ApiNames(inv.run) = RequestsOf(inv.op)
        ELSE IsPrefix(ApiNames(inv.run), RequestsOf(inv.op))

\* C3 witness: AttachFileToEvent succeeded with its three requests
C3_Witness ==
    pc = "returned" /\ inv.op = "AttachFileToEvent" /\ inv.run.err = "nil" /\ Len(inv.run.sent) = 3

\* every invocation authenticates through auth.GetClient, once and first
C4_AuthenticatesAnew ==
    (Ended /\ inv.op # "GetDocumentURL") =>
        /\ inv.run.calls[1] = "auth.GetClient"
        /\ \A i \in 2..Len(inv.run.calls) : inv.run.calls[i] # "auth.GetClient"

\* the helpers that compute an offset from the document
OffsetHelpers ==
    {"AddText", "AddTextBetweenLines", "AddTextAfterLine", "AddTextAfterPatternInLine",
     "AddTable", "AddTextToTableCell", "AddLinkToText", "SetColorToTableCell"}

\* an offset helper fetches the document in the invocation, before its update
C4_FetchesBeforeUpdate ==
    (Ended /\ inv.op \in OffsetHelpers) =>
        \A i \in 1..Len(inv.run.calls) :
            inv.run.calls[i] = "Documents.BatchUpdate" =>
                \E j \in 1..(i - 1) : inv.run.calls[j] = "Documents.Get"

\* C4 as stated: every invocation authenticates anew, offset helpers fetch the
\* document in the same invocation, and no invocation leaves local state behind.
C4_NoStateBetweenCalls ==
    /\ [](C4_AuthenticatesAnew /\ C4_FetchesBeforeUpdate)
    /\ [][tokenFile' = tokenFile]_vars

\* C4 amended: every invocation (but GetDocumentURL, which needs no client)
\* authenticates anew and offset helpers fetch the document in the same
\* invocation; the one piece of local state an invocation leaves behind is the
\* OAuth token file: it is written only in OAuth mode, when it could not be
\* read and a token was obtained from the web, and an invocation that finds it
\* valid reads it and does not ask the web again.
C4_OnlyTokenFileKept ==
    /\ [](C4_AuthenticatesAnew /\ C4_FetchesBeforeUpdate)
    /\ [][tokenFile' # tokenFile =>
             /\ ~config.UseServiceAccount
             /\ tokenFile # "valid"
             /\ "Config.Exchange" \in Range(inv'.run.calls)
             /\ tokenFile' \in {"valid", "corrupt"}]_vars
    /\ [][(pc = "idle" /\ pc' # "idle" /\ inv'.op # "GetDocumentURL" /\ ~config.UseServiceAccount
            /\ tokenFile = "valid" /\ "google.ConfigFromJSON" \notin inv'.run.failed
            /\ "ioutil.ReadFile" \notin inv'.run.failed) =>
               /\ "tokenFromFile" \in Range(inv'.run.calls)
               /\ "fmt.Scan" \notin Range(inv'.run.calls)]_vars

\* C4 witness: an invocation has just saved the token it got from the web
C4_Witness ==
    /\ pc = "returned" /\ inv.run.err = "nil"
    /\ "Encoder.Encode" \in Range(inv.run.calls)
    /\ tokenFile = "valid"

\* C5: every failure inside an invocation is returned to the caller as a
\* non-nil error, and the failing step is the last step of the invocation.
C5_ErrorPropagation ==
    (Ended /\ inv.run.failed # {}) =>
        /\ pc = "returned"
        /\ inv.run.err = "error"
        /\ inv.run.calls[Len(inv.run.calls)] \in inv.run.failed

\* the steps the claim names, in the order it names them
ClaimedOrder ==
    <<"CreateGoogleDoc", "AddText", "CreateFolder", "CopyFileToFolder", "CreateCalendarEvent",
      "AttachFileToEvent", "AddTable", "AddTextToTableCell", "SetColorToTableCell",
      "AddFolderPermission", "RemoveFolderPermission", "RenameFolder", "DeleteFileOrFolder">>

\* C6: main calls the helpers in the stated order, starts a step only after
\* the preceding one returned without error, and runs nothing after a failure.
C6_DriverOrder ==
    /\ \A i, j \in 1..Len(ClaimedOrder) : \A q \in 1..Len(trace) :
          (i < j /\ trace[q].op = ClaimedOrder[j]) =>
              \E r \in 1..(q - 1) : trace[r].op = ClaimedOrder[i]
    /\ \A q, r \in 1..Len(trace) : (q # r) => trace[q].op # trace[r].op
    /\ \A q \in 1..(Len(trace) - 1) : trace[q].err = "nil"
    /\ (pc = "idle" /\ trace # <<>>) => trace[Len(trace)].err = "nil"
    /\ pc = "done" => (Len(trace) = MainLast /\ trace[MainLast].err = "nil")
    /\ Len(trace) <= mainStep

\* C6 witness: main was ended by a failure of its call to RenameFolder
C6_Witness ==
    /\ pc = "exited"
    /\ trace # <<>>
    /\ trace[Len(trace)].op = "RenameFolder"
    /\ trace[Len(trace)].err = "error"

\* C7: a successful auth.GetClient returns a non-nil configuration and a non-nil token.
C7_UsableClient ==
    (Ended /\ "conf.Client" \in Range(inv.run.calls)) =>
        inv.run.conf # "nil" /\ inv.run.token # "nil"

\* C8: InsertTextWithLinkAndRender sends the insertion and the styling in one
\* batch update, the insertion first, and the styled range covers exactly the
\* inserted text.
C8_LinkCoversInsertedText ==
    (Ended /\ inv.op = "InsertTextWithLinkAndRender" /\ inv.run.sent # <<>>) =>
        /\ Len(inv.run.sent) = 1
        /\ Len(BatchRequests) = 2
        /\ BatchRequests[1].kind = "InsertText"
        /\ BatchRequests[1].Text = inv.args.text
        /\ BatchRequests[1].Index = inv.args.locationIndex
        /\ BatchRequests[2].kind = "UpdateTextStyle"
        /\ BatchRequests[2].StartIndex = inv.args.locationIndex
        /\ BatchRequests[2].EndIndex = inv.args.locationIndex + UnitLen(inv.args.text)

\* the run has listed the permissions of the folder
Listed ==
    /\ Ended
    /\ inv.op = "RemoveFolderPermission"
    /\ "Permissions.List" \in Range(inv.run.calls)
    /\ "Permissions.List" \notin inv.run.failed

\* C11: RemoveFolderPermission deletes exactly one permission, the first
\* listed permission whose email address equals the given email; when no listed
\* permission has that email it returns an error and issues no delete request.
C11_RemovesFirstMatch ==
    Listed =>
        LET permissions == inv.args.permissions
            first == Least({i \in 1..Len(permissions) :
                              permissions[i].EmailAddress = inv.args.email})
            deletes == SentTo(inv.run, "Permissions.Delete")
        IN IF first = 0
           THEN inv.run.err = "error" /\ deletes = <<>>
           ELSE /\ Len(deletes) = 1
                /\ deletes[1].body = <<permissions[first].Id>>
                /\ inv.run.err = "nil" <=> "Permissions.Delete" \notin inv.run.failed

\* C11 witness: two listed permissions have the email and the delete succeeded
C11_Witness ==
    /\ Listed
    /\ inv.run.err = "nil"
    /\ Len(inv.args.permissions) = 2
    /\ \A i \in 1..2 : inv.args.permissions[i].EmailAddress = inv.args.email
    /\ Len(SentTo(inv.run, "Permissions.Delete")) = 1

\* the instant an RFC 3339 text denotes, in ticks
DateTimeInstant(d) == (d.seconds - d.offset * SecondsPerHour) * TicksPerSecond

\* the instant at the start of the second of instant i
WholeSecond(i) == (i \div TicksPerSecond) * TicksPerSecond

\* CreateCalendarEvent has sent its event
InsertSent ==
    Ended /\ inv.op = "CreateCalendarEvent" /\ SentTo(inv.run, "Events.Insert") # <<>>

InsertedEvent == SentTo(inv.run, "Events.Insert")[1].body[1]

\* the start and end sent are given at the Asia/Tokyo offset and labelled Asia/Tokyo
C12_LabelledTokyo ==
    /\ InsertedEvent.Start.DateTime.offset = jst.offset
    /\ InsertedEvent.End.DateTime.offset = jst.offset
    /\ InsertedEvent.Start.TimeZone = jst.name
    /\ InsertedEvent.End.TimeZone = jst.name

\* C12 as stated: for startTime and endTime in any zone, the start and end sent
\* denote the same instants as the inputs, converted to and labelled with
\* Asia/Tokyo, and the order of start and end is preserved.
C12_SameInstants ==
    InsertSent =>
        LET sentStart == DateTimeInstant(InsertedEvent.Start.DateTime)
            sentEnd == DateTimeInstant(InsertedEvent.End.DateTime)
        IN /\ C12_LabelledTokyo
           /\ sentStart = inv.args.startTime.instant
           /\ sentEnd = inv.args.endTime.instant
           /\ (inv.args.startTime.instant < inv.args.endTime.instant) <=> (sentStart < sentEnd)
           /\ (inv.args.startTime.instant = inv.args.endTime.instant) <=> (sentStart = sentEnd)

\* C12 amended: the start and end sent denote the instants of the inputs cut
\* down to whole seconds, converted to and labelled with Asia/Tokyo; a start
\* not after the end is sent not after the end, and the two may be sent equal
\* when they lie in the same second.
C12_InstantsToTheSecond ==
    InsertSent =>
        LET sentStart == DateTimeInstant(InsertedEvent.Start.DateTime)
            sentEnd == DateTimeInstant(InsertedEvent.End.DateTime)
        IN /\ C12_LabelledTokyo
           /\ sentStart = WholeSecond(inv.args.startTime.instant)
           /\ sentEnd = WholeSecond(inv.args.endTime.instant)
           /\ (inv.args.startTime.instant <= inv.args.endTime.instant) => (sentStart <= sentEnd)
           /\ (sentStart < sentEnd) => (inv.args.startTime.instant < inv.args.endTime.instant)

\* C12 witness: an event was created from a start in America/Bogota that is
\* not on a whole second and a later end in UTC
C12_Witness ==
    /\ InsertSent
    /\ inv.run.err = "nil"
    /\ inv.args.startTime.loc = Bogota
    /\ inv.args.endTime.loc = UTC
    /\ inv.args.startTime.instant # WholeSecond(inv.args.startTime.instant)
    /\ inv.args.startTime.instant < inv.args.endTime.instant

\* C13: the conference create-request ID is unique for each request: over any
\* sequence of CreateCalendarEvent invocations no two send the same RequestId.
C13_UniqueRequestIds ==
    \A i, j \in 1..Len(requestIds) : (i # j) => requestIds[i] # requestIds[j]

\* the helpers that locate a text in the document
LocationHelpers ==
    {"AddTextBetweenLines", "AddTextAfterLine", "AddTextAfterPatternInLine", "AddLinkToText"}

\* the text the invocation searches for is not located in the document: for
\* AddTextBetweenLines no text run is the start line, or none is the end line,
\* or (the lines being distinct) the start line does not start before the end
\* line; for the other helpers no text run matches
NotLocated ==
    LET body == Body(doc)
    IN CASE inv.op = "AddTextBetweenLines" ->
                LET startPosition == FirstLineStart(body, inv.args.startLine)
                    endPosition == FirstLineStart(body, inv.args.endLine)
                IN \/ startPosition = -1
                   \/ endPosition = -1
                   \/ inv.args.startLine # inv.args.endLine /\ startPosition >= endPosition
         [] inv.op = "AddTextAfterLine" -> FirstLineRun(body, inv.args.lineContent) = 0
         [] inv.op = "AddTextAfterPatternInLine" -> FirstContainingRun(body, inv.args.pattern) = 0
         [] inv.op = "AddLinkToText" -> FirstContainingRun(body, inv.args.searchText) = 0

\* C14: when the searched text is not located, the text-location helpers
\* return an error and issue no batch update, so the document is left unchanged.
C14_ErrorWhenNotLocated ==
    (Ended /\ inv.op \in LocationHelpers /\ NotLocated) =>
        /\ inv.run.err = "error"
        /\ SentTo(inv.run, "Documents.BatchUpdate") = <<>>

\* C14 witness: AddTextBetweenLines found both lines, the start line after the
\* end line, and returned an error
C14_Witness ==
    /\ Ended
    /\ inv.op = "AddTextBetweenLines"
    /\ inv.args.startLine # inv.args.endLine
    /\ FirstLineStart(Body(doc), inv.args.endLine) # -1
    /\ FirstLineStart(Body(doc), inv.args.startLine) > FirstLineStart(Body(doc), inv.args.endLine)
    /\ inv.run.err = "error"
    /\ Len(inv.run.sent) = 1

\* the position in s of the first occurrence of p, 0 when there is none
FirstOccurrence(s, p) ==
    Least({i \in 1..(Len(s) - Len(p) + 1) : SubSeq(s, i, i + Len(p) - 1) = p})

\* the index in the document just after the first occurrence of pattern in
\* the text run
AfterOccurrence(run, pattern) ==
    run.StartIndex + UnitLen(SubSeq(run.Content, 1, FirstOccurrence(run.Content, pattern) - 1))
        + UnitLen(pattern)

\* C15: AddTextAfterPatternInLine inserts immediately after the pattern: the
\* insertion index is the start index of the matched text run plus the offset
\* of the first occurrence of the pattern in that run plus the length of the
\* pattern, the index that directly follows the last character of that occurrence.
C15_InsertedAfterPattern ==
    Returned("AddTextAfterPatternInLine") =>
        LET rs == Runs(Body(doc))
        IN \E i \in 1..Len(rs) :
               /\ rs[i].hasTextRun
               /\ Contains(rs[i].Content, inv.args.pattern)
               /\ BatchRequests[1].Index = AfterOccurrence(rs[i], inv.args.pattern)

\* the top-level table elements of the body, in document order
Tables(body) == SelectSeq(body, LAMBDA e : e.isTable)

\* a table helper has fetched the document
TableHelperFetched ==
    /\ Ended
    /\ inv.op \in {"AddTextToTableCell", "SetColorToTableCell"}
    /\ "Documents.Get" \in Range(inv.run.calls)
    /\ "Documents.Get" \notin inv.run.failed

\* C16: AddTextToTableCell and SetColorToTableCell select the table whose
\* zero-based position among the top-level tables of the body, in document
\* order, is tableIndex, elements that are not tables not being counted; when
\* there is no table at that position (a negative tableIndex included) they
\* return an error and issue no batch update.
C16_TableByPosition ==
    TableHelperFetched =>
        LET tables == Tables(Body(doc))
            updates == SentTo(inv.run, "Documents.BatchUpdate")
        IN IF inv.args.tableIndex \in 0..(Len(tables) - 1)
           THEN LET table == tables[inv.args.tableIndex + 1]
                IN /\ inv.run.err = "nil" => Len(updates) = 1
                   /\ updates # <<>> =>
                         updates[1].body[1].Index =
                             IF inv.op = "SetColorToTableCell" THEN table.StartIndex
                             ELSE CellStartIndex(table, table.StartIndex, inv.args.rowIndex,
                                                 inv.args.columnIndex) + 1
                   /\ updates = <<>> => inv.run.err = "panic"
           ELSE inv.run.err = "error" /\ updates = <<>>

\* C16 witness: the second table was selected in a document that has a
\* paragraph between its two tables
C16_Witness ==
    /\ TableHelperFetched
    /\ inv.run.err = "nil"
    /\ inv.args.tableIndex = 1
    /\ Len(doc) = 5
    /\ doc[2].kind = "table"
    /\ doc[3].kind = "paragraph"
    /\ doc[4].kind = "table"

\* the helper has written the event back
EventUpdated(op) == Ended /\ inv.op = op /\ SentTo(inv.run, "Events.Update") # <<>>

UpdatedEvent == SentTo(inv.run, "Events.Update")[1].body[1]

\* C17: AddAttendeesToEvent and AttachFileToEvent only add to the event they
\* update: the attendees (attachments) the fetched event had are all kept,
\* unchanged and in the same order, followed by one new attendee per supplied
\* email in the supplied order (one new attachment for the given file), and no
\* other field of the fetched event is altered before it is written back.
C17_OnlyAdds ==
    /\ EventUpdated("AddAttendeesToEvent") =>
          LET had == inv.args.fetched.Attendees
              n == Len(inv.args.attendees)
          IN /\ Len(UpdatedEvent.Attendees) = Len(had) + n
             /\ SubSeq(UpdatedEvent.Attendees, 1, Len(had)) = had
             /\ \A i \in 1..n :
                   UpdatedEvent.Attendees[Len(had) + i] =
                       [Email |-> inv.args.attendees[i], ResponseStatus |-> ""]
             /\ [UpdatedEvent EXCEPT !.Attendees = had] = inv.args.fetched
    /\ EventUpdated("AttachFileToEvent") =>
          LET had == inv.args.fetched.Attachments
          IN /\ Len(UpdatedEvent.Attachments) = Len(had) + 1
             /\ SubSeq(UpdatedEvent.Attachments, 1, Len(had)) = had
             /\ UpdatedEvent.Attachments[Len(had) + 1] =
                   [FileId |-> inv.args.fileID, FileUrl |-> inv.args.file.WebViewLink,
                    Title |-> inv.args.file.Name, MimeType |-> inv.args.file.MimeType]
             /\ [UpdatedEvent EXCEPT !.Attachments = had] = inv.args.fetched

\* C17 witness: two attendees were added to an event that had two
C17_Witness ==
    /\ EventUpdated("AddAttendeesToEvent")
    /\ inv.run.err = "nil"
    /\ Len(inv.args.fetched.Attendees) = 2
    /\ Len(inv.args.attendees) = 2
    /\ Len(UpdatedEvent.Attendees) = 4
====
